---- MODULE Spec2Model ----
(***************************************************************************)
(* Session-Logger backend: the windowed meteorological reduction           *)
(* (BuoyData.get_mean_meteor_vals_2 of src/src/data_proc.py) as a state    *)
(* machine: validation of the time frame, construction of the wget | awk   *)
(* command from the Pacific -> UTC translation of the session window, the  *)
(* report streamed by wget, awk's row predicate, the column means and the  *)
(* conversion of the means to display units (Spec); the legacy reduction   *)
(* get_mean_meteor_vals on a frame read from a file (SpecBulk); the tide   *)
(* computation get_tide_sesh_data and the handler's use of its result      *)
(* (SpecTide); the UnitConverter functions on their own (SpecUnits); one   *)
(* invocation of either computation (SpecOnce) and invocations one after   *)
(* another (SpecTwice); the handler session_form_submission with its       *)
(* database calls (SpecHandler); the polling threads and the snapshot      *)
(* files (SpecPollers, SpecPollersFair); parse_time_and_date in its two    *)
(* versions (SpecParse); and CustFlaskException with its handler           *)
(* (SpecError).                                                            *)
(*                                                                         *)
(* Numbers: every float of the program is a fixed-point integer in         *)
(* hundredths (5.0 m/s is 500, 32.0 F is 3200).  NaN, numbers and strings  *)
(* of a Python dict are tagged records (NaN, Num(n), Str(s)).              *)
(***************************************************************************)
EXTENDS Integers, Sequences, FiniteSets, TLC

VARIABLES
    pc,         \* position of the call: idle, validating, building, fetching, done
    sesh_date,  \* argument sesh_date 'YYYY-MM-DD' of year 2024: <<month, day>>
    time_in,    \* argument time_in 'HH:MM': <<hour, minute>>
    time_out,   \* argument time_out 'HH:MM': <<hour, minute>>
    cmd,        \* the six strings build_command put into the awk program
    fetches,    \* number of subprocess.run calls (wget | awk) started
    report,     \* the report lines wget has streamed into awk
    df,         \* the DataFrame build_da_frame_2 returned
    means,      \* mean_series.to_dict() before the unit conversion
    result,     \* the dict get_mean_meteor_vals_2 returns (means after conversion)
    convCalls,  \* the UnitConverter calls made: records [fn, arg]
    outcome,    \* none, returned, or the name of the exception raised
    wget,       \* the wget of the pipeline: idle, running or failed
    curr_df,    \* the frame build_da_frame read, handed to get_mean_meteor_vals
    now,        \* the wall clock of the legacy path: [day, hour], local time
    tide_pc,    \* position of get_tide_sesh_data: idle, requested, done
    reply,      \* the samples [t, v] of the 'data' list NOAA has answered with
    tides,      \* what get_tides_noaa returned: unset, None or a frame
    tide_data,  \* what get_tide_sesh_data returned: unset, None or a dict
    tide_outcome, \* none, returned, or the name of the exception raised
    handler,    \* session_form_submission after get_tide_data: merged, persisted, error
    unit_op,    \* the UnitConverter operation applied: cardinal or round trip
    unit_in,    \* its argument: whole degrees, or meters in hundredths
    unit_out,   \* its results, unset before
    tide_fetches, \* number of requests get_tides_noaa has sent
    prev,       \* the invocation kept for comparison: its arguments, payload, result
    sub,        \* one handling of session_form_submission: position, data, database
    poller,     \* per station, the thread running ping_station: position, history
    files,      \* per snapshot file: the threads writing it, and its content
    reader,     \* a BuoyData being constructed: build_da_frame reading a file
    error       \* a CustFlaskException and what handle_bad_file makes of it

\* the state of the legacy (bulk) reduction that the windowed one never touches
bulkVars == <<curr_df, now>>

\* the state of the tide computation and of the handler's use of it
tideVars == <<tide_pc, reply, tides, tide_data, tide_outcome, handler, tide_fetches>>

\* the state of the UnitConverter functions applied on their own
unitVars == <<unit_op, unit_in, unit_out>>

\* the record of an earlier invocation
histVars == <<prev>>

\* the handling of a submission
handlerVars == <<sub>>

\* the polling threads, the snapshot files and their reader
pollerVars == <<poller, files, reader>>

\* the exception being handled
errorVars == <<error>>

\* the server around the two computations
serverVars == <<handlerVars, pollerVars, errorVars>>

\* the state of the parts that surround the reductions
otherVars == <<histVars, serverVars>>

\* the local state of the windowed reduction
windowedVars == <<pc, sesh_date, time_in, time_out, cmd, fetches, report, df, means,
                  result, convCalls, outcome, wget>>

\* everything outside the windowed reduction
outsideWindowed == <<bulkVars, tideVars, unitVars, otherVars>>

\* everything outside the two reductions
outsideReductions == <<tideVars, unitVars, otherVars>>

vars == <<pc, sesh_date, time_in, time_out, cmd, fetches, report, df, means,
          result, convCalls, outcome, wget, outsideWindowed>>

-----------------------------------------------------------------------------
(* Bounds of the model *)

\* longest report whose rows differ in their timestamps only
MaxTimeRows == 2
\* longest report whose rows differ in their measurements
MaxCellRows == 3

-----------------------------------------------------------------------------
(* Tagged values of Python dicts and DataFrame cells *)

NaN == [kind |-> "nan"]
Num(n) == [kind |-> "num", v |-> n]
Str(s) == [kind |-> "str", s |-> s]
IsNum(x) == x.kind = "num"
IsNaN(x) == x.kind = "nan"

\* the eight target columns of get_mean_meteor_vals_2
cols == <<"WDIR", "WSPD", "GST", "WVHT", "DPD", "MWD", "ATMP", "WTMP">>
ColSet == {cols[i] : i \in 1..Len(cols)}

EmptyDict == [k \in {} |-> NaN]

-----------------------------------------------------------------------------
(* Calendar of 2024 (and the first days of 2025), as pandas.Timestamp uses *)

DaysInMonth == <<31, 29, 31, 30, 31, 30, 31, 31, 30, 31, 30, 31>>

RECURSIVE DaysUpTo(_)
DaysUpTo(mo) == IF mo = 0 THEN 0 ELSE DaysUpTo(mo - 1) + DaysInMonth[mo]

\* days of the year before the first of month mo
DaysBeforeTable == [mo \in 1..12 |-> DaysUpTo(mo - 1)]
DaysBefore(mo) == DaysBeforeTable[mo]

\* days since 2024-01-01
DayIndex(yy, mo, d) == (yy - 2024) * 366 + DaysBefore(mo) + (d - 1)

\* minutes since 2024-01-01 00:00 of a wall-clock reading
AbsMinute(ts) == DayIndex(ts.year, ts.month, ts.day) * 1440 + ts.hour * 60 + ts.minute

\* the wall-clock reading at an absolute minute
StampOfMinute(t) ==
    LET idx == t \div 1440
        yy  == 2024 + idx \div 366
        doy == idx % 366
        mo  == CHOOSE x \in 1..12 :
                   DaysBefore(x) <= doy /\ doy < DaysBefore(x) + DaysInMonth[x]
    IN [year |-> yy, month |-> mo, day |-> doy - DaysBefore(mo) + 1,
        hour |-> (t % 1440) \div 60, minute |-> t % 60]

\* Timestamp(f'{sesh_date} {time}')
Timestamp(date, time) ==
    [year |-> 2024, month |-> date[1], day |-> date[2],
     hour |-> time[1], minute |-> time[2]]

-----------------------------------------------------------------------------
(* US/Pacific in 2024, as tz_localize('US/Pacific') and tz_convert('UTC')  *)
(* apply it: PDT (UTC-7) from 2024-03-10 03:00 to 2024-11-03 01:00 local,  *)
(* PST (UTC-8) otherwise; 02:00-02:59 of 2024-03-10 does not exist and     *)
(* 01:00-01:59 of 2024-11-03 is ambiguous (both raise by default).         *)

\* hours to add to a Pacific wall-clock reading to get UTC
PacificOffset(ts) ==
    IF /\ AbsMinute([year |-> 2024, month |-> 3, day |-> 10, hour |-> 3, minute |-> 0])
              <= AbsMinute(ts)
       /\ AbsMinute(ts)
              < AbsMinute([year |-> 2024, month |-> 11, day |-> 3, hour |-> 1, minute |-> 0])
    THEN 7 ELSE 8

\* to_datetime(stamp).tz_localize('US/Pacific')
tz_localize(ts) ==
    IF ts.month = 3 /\ ts.day = 10 /\ ts.hour = 2
    THEN [err |-> "NonExistentTimeError", ts |-> ts, off |-> 0]
    ELSE IF ts.month = 11 /\ ts.day = 3 /\ ts.hour = 1
    THEN [err |-> "AmbiguousTimeError", ts |-> ts, off |-> 0]
    ELSE [err |-> "none", ts |-> ts, off |-> PacificOffset(ts)]

\* pst.tz_convert('UTC')
tz_convert(pst) == StampOfMinute(AbsMinute(pst.ts) + 60 * pst.off)

\* f'{n:02d}': the two decimal digits of n < 100
Fmt02(n) == <<n \div 10, n % 10>>

\* parse_time_and_date without its midnight case: always the local month and day
parse_time_and_date_local_day(date, t_in, t_out) ==
    LET pst_in  == tz_localize(Timestamp(date, t_in))
        pst_out == tz_localize(Timestamp(date, t_out))
        utc_in  == tz_convert(pst_in)
        utc_out == tz_convert(pst_out)
    IN IF pst_in.err # "none" THEN [err |-> pst_in.err]
       ELSE IF pst_out.err # "none" THEN [err |-> pst_out.err]
       ELSE [err |-> "none",
             hr_in |-> Fmt02(utc_in.hour), min_in |-> Fmt02(utc_in.minute),
             hr_out |-> Fmt02(utc_out.hour), min_out |-> Fmt02(utc_out.minute),
             month |-> Fmt02(pst_in.ts.month), day |-> Fmt02(pst_in.ts.day)]

\* BuoyData.parse_time_and_date
parse_time_and_date(date, t_in, t_out) ==
    LET pst_in  == tz_localize(Timestamp(date, t_in))
        pst_out == tz_localize(Timestamp(date, t_out))
        utc_in  == tz_convert(pst_in)
        utc_out == tz_convert(pst_out)
        midnight == utc_in.day # pst_in.ts.day
    IN IF pst_in.err # "none" THEN [err |-> pst_in.err]
       ELSE IF pst_out.err # "none" THEN [err |-> pst_out.err]
       ELSE [err |-> "none",
             hr_in |-> Fmt02(utc_in.hour), min_in |-> Fmt02(utc_in.minute),
             hr_out |-> Fmt02(utc_out.hour), min_out |-> Fmt02(utc_out.minute),
             month |-> IF midnight THEN Fmt02(utc_in.month) ELSE Fmt02(pst_in.ts.month),
             day |-> IF midnight THEN Fmt02(utc_in.day) ELSE Fmt02(pst_in.ts.day)]

\* parse_time_and_date of misc/scratch.py: always the UTC month and day
parse_time_and_date_scratch(date, t_in, t_out) ==
    LET pst_in  == tz_localize(Timestamp(date, t_in))
        pst_out == tz_localize(Timestamp(date, t_out))
        utc_in  == tz_convert(pst_in)
        utc_out == tz_convert(pst_out)
    IN IF pst_in.err # "none" THEN [err |-> pst_in.err]
       ELSE IF pst_out.err # "none" THEN [err |-> pst_out.err]
       ELSE [err |-> "none",
             hr_in |-> Fmt02(utc_in.hour), min_in |-> Fmt02(utc_in.minute),
             hr_out |-> Fmt02(utc_out.hour), min_out |-> Fmt02(utc_out.minute),
             month |-> Fmt02(utc_in.month), day |-> Fmt02(utc_in.day)]

\* BuoyData.build_command: the six strings it writes into the awk program
\* (the rest of the command text is fixed)
build_command(date, t_in, t_out) == parse_time_and_date(date, t_in, t_out)

\* awk's reading of a decimal constant of its program text
AwkNum(s) == s[1] * 10 + s[2]

\* awk's pattern on one report line.  The fields $2..$5 of a line are text
\* that looks numeric, which awk compares as numbers: a row holds them as
\* numbers.
AwkKeeps(c, row) ==
    LET hr_in   == AwkNum(c.hr_in)
        min_in  == AwkNum(c.min_in)
        hr_out  == AwkNum(c.hr_out)
        min_out == AwkNum(c.min_out)
        time     == \/ (row.hh = hr_in /\ row.mm >= min_in)
                    \/ (row.hh > hr_in /\ row.hh < hr_out)
                    \/ (row.hh = hr_out /\ row.mm <= min_out)
        utc_date == row.MM = AwkNum(c.month) /\ row.DD = AwkNum(c.day)
    IN utc_date /\ time

\* the lines awk prints, in the order of the report
AwkOutput(c, rep) == SelectSeq(rep, LAMBDA row : AwkKeeps(c, row))

-----------------------------------------------------------------------------
(* The reduction: drop_mm, to_numeric, mean, round, unit conversion *)

\* BuoyData.drop_mm on one cell: the token "MM" becomes None
drop_mm(tok) == IF tok = "MM" THEN "None" ELSE tok

\* pandas.to_numeric(errors='coerce') on one cell, in hundredths: the text
\* of a number parses to it, anything else (None, unparseable text) to NaN
to_numeric(tok) ==
    CASE tok = "0.0" -> Num(0)
      [] tok = "5.0" -> Num(500)
      [] tok = "7.0" -> Num(700)
      [] tok = "100.0" -> Num(10000)
      [] OTHER -> NaN

\* the nearest integer to a / b (b > 0), a tie going to the even one, as
\* numpy.round and Python's round do
RoundDiv(a, b) ==
    LET q == a \div b
        r == a % b
    IN IF 2 * r < b THEN q
       ELSE IF 2 * r > b THEN q + 1
       ELSE IF q % 2 = 0 THEN q ELSE q + 1

RECURSIVE SumNum(_)
SumNum(xs) == IF xs = <<>> THEN 0 ELSE Head(xs).v + SumNum(Tail(xs))

\* the cells of column c of a frame after drop_mm and to_numeric
NumericColumn(frame, c) == [i \in 1..Len(frame) |-> to_numeric(drop_mm(frame[i][c]))]

\* a mean that divides by the number of rows, nulls included
ColumnMeanCountingNulls(frame, c) ==
    LET vals == SelectSeq(NumericColumn(frame, c), IsNum)
    IN IF Len(vals) = 0 THEN NaN ELSE Num(RoundDiv(SumNum(vals), Len(frame)))

\* df[c].mean() (NaN skipped; NaN when nothing is left) then round(decimals=2)
ColumnMean(frame, c) ==
    LET vals == SelectSeq(NumericColumn(frame, c), IsNum)
    IN IF Len(vals) = 0 THEN NaN ELSE Num(RoundDiv(SumNum(vals), Len(vals)))

\* mean_series.to_dict(): every one of the eight columns is a key
MeanDict(frame) == [c \in ColSet |-> ColumnMean(frame, c)]

\* Python's truth value of a float: only 0.0 is false (NaN is true)
Truthy(x) == IsNaN(x) \/ (IsNum(x) /\ x.v # 0)

\* int(x) of a float in hundredths: truncation toward zero
IntTrunc(x) == IF x >= 0 THEN x \div 100 ELSE -((-x) \div 100)

\* the compass point whose 45-degree sector is centred on the direction:
\* floor(((value mod 360) + 22.5) / 45) mod 8, in whole halves of a degree
find_cardinal_direction_centered(value) ==
    LET cardinals == <<"N", "NE", "E", "SE", "S", "SW", "W", "NW">>
    IN cardinals[(((2 * (value % 360) + 45) \div 90) % 8) + 1]

\* the remainder and the quotient taken toward zero, as C's % and / do
find_cardinal_direction_truncating(value) ==
    LET cardinals == <<"N", "NE", "E", "SE", "S", "SW", "W", "NW">>
        r   == IF value >= 0 THEN value % 360 ELSE -((-value) % 360)
        idx == IF r >= 0 THEN r \div 45 ELSE -((-r) \div 45)
    IN cardinals[(idx % 8) + 1]

\* UnitConverter.find_cardinal_direction of the older module dataProc.py:
\* cardinals[((int(value + 45)) % 360) // 45]
find_cardinal_direction_dataProc(value) ==
    LET cardinals == <<"N", "NE", "E", "SE", "S", "SW", "W", "NW">>
    IN cardinals[(((value + 45) % 360) \div 45) + 1]

\* UnitConverter.find_cardinal_direction
find_cardinal_direction(value) ==
    LET cardinals == <<"N", "NE", "E", "SE", "S", "SW", "W", "NW">>
    IN cardinals[(((value % 360) \div 45) % 8) + 1]

\* UnitConverter.meters_per_sec_to_mph: x * 3600 / 1609.344, round(.., 1)
meters_per_sec_to_mph(x) ==
    IF IsNaN(x) THEN NaN ELSE Num(10 * RoundDiv(x.v * 625, 2794))

\* a conversion to feet that rounds to whole feet
meters_to_feet_whole(x) ==
    IF IsNaN(x) THEN NaN ELSE Num(100 * RoundDiv(x.v * 125, 3810))

\* UnitConverter.feet_to_meters: x * 0.3048, round(.., 1)
feet_to_meters(x) ==
    IF IsNaN(x) THEN NaN ELSE Num(10 * RoundDiv(x.v * 381, 12500))

\* UnitConverter.meters_to_feet: x / 0.3048, round(.., 1)
meters_to_feet(x) ==
    IF IsNaN(x) THEN NaN ELSE Num(10 * RoundDiv(x.v * 125, 381))

\* UnitConverter.celsius_to_fahrenheit: x * 9 / 5 + 32, round(.., 1)
celsius_to_fahrenheit(x) ==
    IF IsNaN(x) THEN NaN ELSE Num(10 * (RoundDiv(x.v * 9, 50) + 320))

\* one "if means[k]: ..." statement of convert_means_dict_units_to_std on
\* the state st = [d: the dict, calls: converter calls so far, err]
ConvStep(st, k) ==
    IF st.err # "none" \/ ~Truthy(st.d[k]) THEN st
    ELSE IF k \in {"WDIR", "MWD"}
    THEN IF IsNaN(st.d[k])
         THEN [st EXCEPT !.err = "ValueError"]   \* int(nan)
         ELSE LET deg  == IntTrunc(st.d[k].v)
                  card == k \o "_CARD"
              IN [st EXCEPT
                    !.d = [x \in DOMAIN st.d \cup {card} |->
                             IF x = card THEN Str(find_cardinal_direction(deg))
                             ELSE st.d[x]],
                    !.calls = @ \cup {[fn |-> "find_cardinal_direction", key |-> k,
                                       arg |-> Num(100 * deg)]}]
    ELSE LET fn == CASE k \in {"WSPD", "GST"} -> "meters_per_sec_to_mph"
                     [] k = "WVHT" -> "meters_to_feet"
                     [] OTHER -> "celsius_to_fahrenheit"
             v  == CASE k \in {"WSPD", "GST"} -> meters_per_sec_to_mph(st.d[k])
                     [] k = "WVHT" -> meters_to_feet(st.d[k])
                     [] OTHER -> celsius_to_fahrenheit(st.d[k])
         IN [st EXCEPT !.d[k] = v,
                       !.calls = @ \cup {[fn |-> fn, key |-> k, arg |-> st.d[k]]}]

RECURSIVE ConvSteps(_, _)
ConvSteps(st, ks) == IF ks = <<>> THEN st ELSE ConvSteps(ConvStep(st, Head(ks)), Tail(ks))

\* BuoyData.convert_means_dict_units_to_std: its seven statements in order
convert_means_dict_units_to_std(d) ==
    ConvSteps([d |-> d, calls |-> {}, err |-> "none"],
              <<"WDIR", "WSPD", "GST", "WVHT", "MWD", "ATMP", "WTMP">>)

-----------------------------------------------------------------------------
(* Inputs *)

\* session dates <<month, day>> of 2024: PDT, PDT at a month's end, PST at
\* the year's end, and the day PDT begins
Dates == {<<9, 8>>, <<9, 30>>, <<12, 31>>, <<3, 10>>}

\* session times <<hour, minute>>
Times == {<<2, 30>>, <<14, 0>>, <<14, 30>>, <<16, 30>>, <<17, 0>>, <<17, 30>>}

\* the day after <<year, month, day>>
NextDay(ymd) ==
    LET t == StampOfMinute((DayIndex(ymd[1], ymd[2], ymd[3]) + 1) * 1440)
    IN <<t.year, t.month, t.day>>

\* UTC hours and minutes of the report lines offered
RowHours == {0, 21, 23}
RowMinutes == {0, 30, 50}

\* measurement tokens of a report line ("abc" stands for any text that is
\* neither "MM" nor a number); the columns WSPD, GST, WVHT, ATMP of a line
\* share one token and WDIR, MWD, DPD, WTMP another
CellsA == {"MM", "0.0", "5.0", "7.0", "abc"}
CellsB == {"MM", "0.0", "100.0"}

\* a report line: its date and time fields and its eight target columns
\* (APD, PRES, DEWP, VIS, PTDY and TIDE are never read)
Row(ymd, h, m, a, b) ==
    [YY |-> ymd[1], MM |-> ymd[2], DD |-> ymd[3], hh |-> h, mm |-> m,
     WSPD |-> a, GST |-> a, WVHT |-> a, ATMP |-> a,
     WDIR |-> b, MWD |-> b, DPD |-> b, WTMP |-> b]

\* the UTC timestamp of a report line, in minutes since 2024-01-01 00:00
RowMinuteAbs(row) ==
    AbsMinute([year |-> row.YY, month |-> row.MM, day |-> row.DD,
               hour |-> row.hh, minute |-> row.mm])

\* lines of the time grid, whose measurements are the plain ones
PlainRow(row) ==
    /\ row.hh \in RowHours /\ row.mm \in RowMinutes
    /\ row.WSPD = "5.0" /\ row.WDIR = "100.0"

\* the minutes of the lines offered with every measurement: one line every
\* ten minutes
VariedMinutes == {10 * (i - 1) : i \in 1..MaxCellRows}

\* lines of 2024-09-08 21:xx UTC, the ones offered with every measurement
VariedRow(row) ==
    /\ row.YY = 2024 /\ row.MM = 9 /\ row.DD = 8
    /\ row.hh = 21 /\ row.mm \in VariedMinutes

\* the report lines offered for a session date: the plain lines of the day
\* and of the day after at every hour and minute of the grid, and the
\* varied lines of that day
RowSpaceOf(date) ==
    LET days == {<<2024, date[1], date[2]>>, NextDay(<<2024, date[1], date[2]>>)}
    IN {Row(ymd, h, m, "5.0", "100.0") : ymd \in days, h \in RowHours, m \in RowMinutes}
       \cup {row \in {Row(ymd, 21, m, a, b) :
                         ymd \in days, m \in VariedMinutes, a \in CellsA, b \in CellsB} :
                VariedRow(row)}

RowSpaceTable == [date \in Dates |-> RowSpaceOf(date)]
RowSpace(date) == RowSpaceTable[date]

\* a report is newest first, and is either up to MaxTimeRows plain lines or
\* up to MaxCellRows lines of the varied hour, which differ in the token of
\* WSPD, GST, WVHT, ATMP and share the token of WDIR, MWD, DPD, WTMP
ReportOK(rep) ==
    /\ \A i \in 1..Len(rep) - 1 : RowMinuteAbs(rep[i]) > RowMinuteAbs(rep[i + 1])
    /\ \/ Len(rep) <= MaxTimeRows /\ \A i \in 1..Len(rep) : PlainRow(rep[i])
       \/ /\ Len(rep) <= MaxCellRows
          /\ \A i \in 1..Len(rep) : VariedRow(rep[i]) /\ rep[i].WDIR = rep[1].WDIR

-----------------------------------------------------------------------------
(* The call get_mean_meteor_vals_2(sesh_date, time_in, time_out, url) *)

InitReductions ==
    /\ pc = "idle"
    /\ sesh_date = <<9, 8>>
    /\ time_in = <<14, 0>>
    /\ time_out = <<14, 0>>
    /\ cmd = [err |-> "none"]
    /\ fetches = 0
    /\ report = <<>>
    /\ df = <<>>
    /\ means = EmptyDict
    /\ result = EmptyDict
    /\ convCalls = {}
    /\ outcome = "none"
    /\ wget = "idle"
    /\ curr_df = <<>>
    /\ now = [day |-> 8, hour |-> 15]

\* no tide computation has been asked for
InitTide ==
    /\ tide_pc = "idle"
    /\ reply = <<>>
    /\ tides = [kind |-> "unset"]
    /\ tide_data = [kind |-> "unset"]
    /\ tide_outcome = "none"
    /\ handler = [merged |-> {}, persisted |-> FALSE, error |-> "none"]
    /\ tide_fetches = 0

\* no UnitConverter function is being applied on its own
InitUnits ==
    /\ unit_op = "none"
    /\ unit_in = 0
    /\ unit_out = [kind |-> "unset"]

\* no invocation has been kept
InitHist == prev = [kind |-> "none"]

\* no submission has arrived
InitHandler ==
    sub = [pc |-> "idle", variant |-> "none", data |-> EmptyDict,
           conn |-> "none", cursor |-> "none",
           meteor_station_id |-> "unset", tide_station_id |-> "unset",
           meteor_data |-> [kind |-> "unset"], tide_data |-> [kind |-> "unset"],
           steps |-> <<>>, inserts |-> 0, failures |-> {}, status |-> 0]

\* station_list, one thread each
station_list == <<"46050", "46029">>
Stations == {station_list[i] : i \in 1..Len(station_list)}

\* RAW_meteor_data_{station}.csv and RAW_spectral_data_{station}.spec
FileNames == [kind : {"meteor", "spectral"}, station : Stations]

\* no thread has been started, no file written, nothing is being read
InitPollers ==
    /\ poller = [st \in Stations |-> [pc |-> "unstarted", failed |-> FALSE, dumped |-> {}]]
    /\ files = [f \in FileNames |-> [writers |-> {}, content |-> "absent"]]
    /\ reader = [pc |-> "idle", file |-> "none", got |-> "none"]

\* no exception has been raised
InitError == error = [pc |-> "idle"]

InitServer == InitHandler /\ InitPollers /\ InitError

\* the parts that surround the reductions at rest
InitOther == InitHist /\ InitServer

Init == InitReductions /\ InitTide /\ InitUnits /\ InitOther

\* the caller invokes the reduction
Call ==
    /\ pc = "idle"
    /\ \E d \in Dates, t_in \in Times, t_out \in Times :
          /\ sesh_date' = d
          /\ time_in' = t_in
          /\ time_out' = t_out
    /\ pc' = "validating"
    /\ UNCHANGED <<cmd, fetches, report, df, means, result, convCalls, outcome, wget>>
    /\ UNCHANGED outsideWindowed

\* the check of the time frame: int(time_in[:2]) > int(time_out[:2])
InvalidTimeframe(t_in, t_out) == t_in[1] > t_out[1]

\* a validation that runs only once the fetch has been started
ValidateAfterFetch ==
    /\ pc = "validating"
    /\ fetches' = fetches + 1
    /\ IF InvalidTimeframe(time_in, time_out)
       THEN pc' = "done" /\ outcome' = "InvalidTimeframeException"
       ELSE pc' = "building" /\ outcome' = outcome
    /\ UNCHANGED <<sesh_date, time_in, time_out, cmd, report, df, means, result,
                   convCalls, wget>>
    /\ UNCHANGED outsideWindowed

\* a validation against the current hour, as the legacy path has it
ValidateAgainstClock ==
    /\ pc = "validating"
    /\ IF now.hour < time_in[1] \/ time_in[1] > time_out[1] \/ now.hour < time_out[1]
       THEN pc' = "done" /\ outcome' = "InvalidTimeframeException"
       ELSE pc' = "building" /\ outcome' = outcome
    /\ UNCHANGED <<sesh_date, time_in, time_out, cmd, fetches, report, df, means,
                   result, convCalls, wget>>
    /\ UNCHANGED outsideWindowed

\* "Handle incorrect times": raise InvalidTimeframeException or go on
Validate ==
    /\ pc = "validating"
    /\ IF InvalidTimeframe(time_in, time_out)
       THEN pc' = "done" /\ outcome' = "InvalidTimeframeException"
       ELSE pc' = "building" /\ outcome' = outcome
    /\ UNCHANGED <<sesh_date, time_in, time_out, cmd, fetches, report, df, means,
                   result, convCalls, wget>>
    /\ UNCHANGED outsideWindowed

\* build_da_frame_2 up to subprocess.run: build_command (tz_localize may
\* raise), then the wget | awk pipeline is started
StartFetch ==
    /\ pc = "building"
    /\ LET c == build_command(sesh_date, time_in, time_out)
       IN IF c.err # "none"
          THEN /\ pc' = "done"
               /\ outcome' = c.err
               /\ UNCHANGED <<cmd, fetches, wget>>
          ELSE /\ pc' = "fetching"
               /\ cmd' = c
               /\ fetches' = fetches + 1
               /\ wget' = "running"
               /\ UNCHANGED outcome
    /\ UNCHANGED <<sesh_date, time_in, time_out, report, df, means, result, convCalls>>
    /\ UNCHANGED outsideWindowed

\* wget streams one more line of the station's report into awk
WgetRow ==
    /\ pc = "fetching"
    /\ wget = "running"
    /\ \E row \in RowSpace(sesh_date) :
          /\ ReportOK(Append(report, row))
          /\ report' = Append(report, row)
    /\ UNCHANGED <<pc, sesh_date, time_in, time_out, cmd, fetches, df, means, result,
                   convCalls, outcome, wget>>
    /\ UNCHANGED outsideWindowed

\* a failed fetch that is issued again
WgetFailsAndRetries ==
    /\ pc = "fetching"
    /\ wget = "running"
    /\ report = <<>>
    /\ fetches' = fetches + 1
    /\ UNCHANGED <<pc, sesh_date, time_in, time_out, cmd, report, df, means,
                   result, convCalls, outcome, wget>>
    /\ UNCHANGED outsideWindowed

\* the source is unreachable: wget gives up (no route, refused, HTTP error)
\* having written nothing to the pipe, and exits with a non-zero status
WgetFails ==
    /\ pc = "fetching"
    /\ wget = "running"
    /\ report = <<>>
    /\ wget' = "failed"
    /\ UNCHANGED <<pc, sesh_date, time_in, time_out, cmd, fetches, report, df, means,
                   result, convCalls, outcome>>
    /\ UNCHANGED outsideWindowed

\* the exit status subprocess.run(cmd, shell=True, check=True) sees: sh
\* reports the status of the last command of a pipeline, so awk's, which
\* reads its input to the end and exits with 0 whatever became of wget
\* (whose status after a network failure is 4)
PipelineStatus(w) ==
    LET status == [wget |-> IF w = "failed" THEN 4 ELSE 0, awk |-> 0]
    IN status.awk

\* the pipeline ends: build_da_frame_2 returns the frame of the lines awk
\* printed, and get_mean_meteor_vals_2 reduces it: drop_mm, to_numeric,
\* mean, round, to_dict, convert_means_dict_units_to_std, return.  The
\* exception of the conversion (int(nan)) leaves the call without a result.
Reduce ==
    /\ pc = "fetching"
    /\ LET frame == AwkOutput(cmd, report)
           conv  == convert_means_dict_units_to_std(MeanDict(frame))
       IN IF PipelineStatus(wget) # 0
          THEN /\ outcome' = "CalledProcessError"
               /\ UNCHANGED <<df, means, convCalls, result>>
          ELSE /\ df' = frame
               /\ means' = MeanDict(frame)
               /\ convCalls' = conv.calls
               /\ IF conv.err # "none"
                  THEN outcome' = conv.err /\ result' = result
                  ELSE outcome' = "returned" /\ result' = conv.d
    /\ pc' = "done"
    /\ UNCHANGED <<sesh_date, time_in, time_out, cmd, fetches, report, wget>>
    /\ UNCHANGED outsideWindowed

Next == Call \/ Validate \/ StartFetch \/ WgetRow \/ WgetFails \/ Reduce

Spec == Init /\ [][Next]_vars

-----------------------------------------------------------------------------
(* The legacy call get_mean_meteor_vals(df, start, end) on the frame that  *)
(* build_da_frame read from the station's file.  Every cell of that frame  *)
(* is text: the second header line of the file (the units) makes read_csv  *)
(* keep all columns as strings.                                            *)

\* longest frame handed to the legacy reduction
MaxBulkRows == 2

\* str(n) of an integer 0..99: its decimal digits, without padding
StrInt(n) == IF n < 10 THEN <<n>> ELSE <<n \div 10, n % 10>>

\* the session times and the wall clocks of the legacy calls
BulkTimes == {<<2, 30>>, <<14, 0>>, <<16, 30>>}
BulkClocks == {[day |-> 8, hour |-> 15], [day |-> 8, hour |-> 23]}

\* the lines of the station's file: 2024-09-08 and 2024-09-09 at 09:00,
\* 21:00 and 23:00 UTC
BulkRowSpace ==
    {Row(<<2024, 9, d>>, h, 0, a, "100.0") : d \in {8, 9}, h \in {9, 21, 23},
                                             a \in {"MM", "5.0", "abc"}}

\* "Handle incorrect times" of get_mean_meteor_vals, against datetime.now()
InvalidTimeframeLegacy(hour, start, end) ==
    hour < start[1] \/ start[1] > end[1] \/ hour < end[1]

\* BuoyData.trunc_meteor_df_24_hrs: the first 145 rows (the column
\* selection keeps every column the model has)
trunc_meteor_df_24_hrs(frame) ==
    SubSeq(frame, 1, IF Len(frame) < 145 THEN Len(frame) ELSE 145)

\* DataFrame.astype(float) on one cell: None becomes NaN, the text of a
\* number the number, and any other text raises ValueError
AstypeFloatRaises(tok) == tok # "None" /\ IsNaN(to_numeric(tok))

\* BuoyData.get_df_in_timeframe: the rows whose DD is today's zero-padded
\* day and whose hh is one of str(h) for h in range(start + 7, end + 7 + 1),
\* then drop_mm and astype(float)
get_df_in_timeframe(frame, start, end, day) ==
    LET hours == {StrInt(h) : h \in (start[1] + 7)..(end[1] + 7)}
        today == IF day < 10 THEN <<0, day>> ELSE StrInt(day)
        ofDay == SelectSeq(frame, LAMBDA row : Fmt02(row.DD) = today)
        rows  == SelectSeq(ofDay, LAMBDA row : Fmt02(row.hh) \in hours)
    IN [rows |-> rows,
        err  |-> IF \E i \in 1..Len(rows), c \in ColSet :
                        AstypeFloatRaises(drop_mm(rows[i][c]))
                 THEN "ValueError" ELSE "none"]

\* build_da_frame reads one more line of the file (newest first)
LoadRow ==
    /\ pc = "idle"
    /\ Len(curr_df) < MaxBulkRows
    /\ \E row \in BulkRowSpace :
          /\ curr_df # <<>> => RowMinuteAbs(curr_df[Len(curr_df)]) > RowMinuteAbs(row)
          /\ curr_df' = Append(curr_df, row)
    /\ UNCHANGED <<pc, sesh_date, time_in, time_out, cmd, fetches, report, df, means,
                   result, convCalls, outcome, wget, now>>
    /\ UNCHANGED outsideReductions

\* the caller invokes get_mean_meteor_vals(curr_df, start, end) at some hour
BulkCall ==
    /\ pc = "idle"
    /\ \E start \in BulkTimes, end \in BulkTimes, clock \in BulkClocks :
          /\ time_in' = start
          /\ time_out' = end
          /\ now' = clock
    /\ pc' = "legacy validating"
    /\ UNCHANGED <<sesh_date, cmd, fetches, report, df, means, result, convCalls,
                   outcome, wget, curr_df>>
    /\ UNCHANGED outsideReductions

\* the check of the time frame against the current hour
BulkValidate ==
    /\ pc = "legacy validating"
    /\ IF InvalidTimeframeLegacy(now.hour, time_in, time_out)
       THEN pc' = "done" /\ outcome' = "InvalidTimeframeException"
       ELSE pc' = "legacy reducing" /\ outcome' = outcome
    /\ UNCHANGED <<sesh_date, time_in, time_out, cmd, fetches, report, df, means,
                   result, convCalls, wget, curr_df, now>>
    /\ UNCHANGED outsideReductions

\* the rest of get_mean_meteor_vals: trunc_meteor_df_24_hrs,
\* get_df_in_timeframe (whose astype(float) may raise), mean, round,
\* to_dict, convert_means_dict_units_to_std, return
BulkReduce ==
    /\ pc = "legacy reducing"
    /\ LET sel  == get_df_in_timeframe(trunc_meteor_df_24_hrs(curr_df),
                                       time_in, time_out, now.day)
           conv == convert_means_dict_units_to_std(MeanDict(sel.rows))
       IN /\ df' = sel.rows
          /\ IF sel.err # "none"
             THEN /\ outcome' = sel.err
                  /\ UNCHANGED <<means, convCalls, result>>
             ELSE /\ means' = MeanDict(sel.rows)
                  /\ convCalls' = conv.calls
                  /\ IF conv.err # "none"
                     THEN outcome' = conv.err /\ result' = result
                     ELSE outcome' = "returned" /\ result' = conv.d
    /\ pc' = "done"
    /\ UNCHANGED <<sesh_date, time_in, time_out, cmd, fetches, report, wget, curr_df, now>>
    /\ UNCHANGED outsideReductions

NextBulk == LoadRow \/ BulkCall \/ BulkValidate \/ BulkReduce

SpecBulk == Init /\ [][NextBulk]_vars

-----------------------------------------------------------------------------
(* The tide computation get_tide_sesh_data(sesh_data, station_id) and what *)
(* session_form_submission does with its result.  Water levels are in      *)
(* hundredths of a foot, given to one decimal; a timestamp is the minute   *)
(* of the session's day that to_datetime reads from the sample's 't'.      *)

\* longest series NOAA answers with
MaxSamples == 3

\* the timestamps and the water levels of the samples offered
TideTimes == {600, 630, 660}
TideHeights == {40, 120, 350}

\* the frame get_tides_noaa builds from the 'data' list, and Python's None
Frame(rows) == [kind |-> "frame", rows |-> rows]
None == [kind |-> "None"]

\* Series.max() and Series.min() of a non-empty column
SeriesMax(vs) == CHOOSE x \in {vs[i] : i \in 1..Len(vs)} : \A i \in 1..Len(vs) : vs[i] <= x
SeriesMin(vs) == CHOOSE x \in {vs[i] : i \in 1..Len(vs)} : \A i \in 1..Len(vs) : vs[i] >= x

\* the last occurrence of the maximum
idxmax_last(vs) ==
    CHOOSE i \in 1..Len(vs) :
        vs[i] = SeriesMax(vs) /\ \A j \in (i + 1)..Len(vs) : vs[j] # SeriesMax(vs)

\* Series.idxmax() and Series.idxmin(): the label of the first occurrence
idxmax(vs) ==
    CHOOSE i \in 1..Len(vs) :
        vs[i] = SeriesMax(vs) /\ \A j \in 1..(i - 1) : vs[j] # SeriesMax(vs)
idxmin(vs) ==
    CHOOSE i \in 1..Len(vs) :
        vs[i] = SeriesMin(vs) /\ \A j \in 1..(i - 1) : vs[j] # SeriesMin(vs)

\* the values in ascending order (insertion sort)
RECURSIVE Insert(_, _)
Insert(x, sorted) ==
    IF sorted = <<>> \/ x <= Head(sorted) THEN <<x>> \o sorted
    ELSE <<Head(sorted)>> \o Insert(x, Tail(sorted))

RECURSIVE sort_values(_)
sort_values(vs) == IF vs = <<>> THEN <<>> ELSE Insert(Head(vs), sort_values(Tail(vs)))

\* the middle element of the series as it came, unsorted
median_unsorted(vs) == vs[(Len(vs) + 1) \div 2]

\* Series.median(): the middle value in ascending order, the mean of the
\* two middle values for an even count
median(vs) ==
    LET sorted == sort_values(vs)
        n      == Len(vs)
    IN IF n % 2 = 1 THEN sorted[(n + 1) \div 2]
       ELSE (sorted[n \div 2] + sorted[n \div 2 + 1]) \div 2

\* a direction rule that compares positions in the series, not timestamps
incoming_by_position(ts, vs) == idxmax(vs) > idxmin(vs)

\* incoming = max_height_time > min_height_time
incoming(ts, vs) == ts[idxmax(vs)] > ts[idxmin(vs)]

\* get_tides_noaa on a response whose JSON body has the 'data' list rows:
\* DataFrame(data['data'])[['t', 'v']] raises KeyError for an empty list
\* (a frame without columns), otherwise the frame is returned
get_tides_noaa(rows) ==
    IF rows = <<>> THEN [kind |-> "KeyError"] ELSE Frame(rows)

\* get_tide_sesh_data from "if not data.empty:" on, for what get_tides_noaa
\* returned: the attribute of None raises AttributeError, an empty frame
\* makes it return None, and a frame gives the dict
get_tide_sesh_data(data) ==
    IF data = None THEN [kind |-> "AttributeError"]
    ELSE IF data.rows = <<>> THEN None
    ELSE LET ts == [i \in 1..Len(data.rows) |-> data.rows[i].t]
             vs == [i \in 1..Len(data.rows) |-> data.rows[i].v]
         IN [kind |-> "dict", incoming |-> incoming(ts, vs),
             max_h |-> SeriesMax(vs), min_h |-> SeriesMin(vs), median_h |-> median(vs)]

\* the handler calls get_tide_data, which calls get_tide_sesh_data, which
\* sends the request of get_tides_noaa
TideCall ==
    /\ tide_pc = "idle"
    /\ tide_pc' = "requested"
    /\ tide_fetches' = tide_fetches + 1
    /\ UNCHANGED <<reply, tides, tide_data, tide_outcome, handler>>
    /\ UNCHANGED <<pc, sesh_date, time_in, time_out, cmd, fetches, report, df, means,
                   result, convCalls, outcome, wget, bulkVars, unitVars, otherVars>>

\* NOAA's answer holds one more sample
TideSample ==
    /\ tide_pc = "requested"
    /\ Len(reply) < MaxSamples
    /\ \E t \in TideTimes, v \in TideHeights : reply' = Append(reply, [t |-> t, v |-> v])
    /\ UNCHANGED <<tide_pc, tides, tide_data, tide_outcome, handler, tide_fetches>>
    /\ UNCHANGED <<pc, sesh_date, time_in, time_out, cmd, fetches, report, df, means,
                   result, convCalls, outcome, wget, bulkVars, unitVars, otherVars>>

\* the end of get_tide_sesh_data for what get_tides_noaa gave it
TideEnd(data) ==
    /\ tides' = data
    /\ IF data.kind \in {"frame", "None"}
       THEN LET res == get_tide_sesh_data(data)
            IN IF res.kind \in {"dict", "None"}
               THEN tide_data' = res /\ tide_outcome' = "returned"
               ELSE tide_data' = tide_data /\ tide_outcome' = res.kind
       ELSE tide_data' = tide_data /\ tide_outcome' = data.kind
    /\ tide_pc' = "done"
    /\ UNCHANGED <<reply, handler, tide_fetches>>
    /\ UNCHANGED <<pc, sesh_date, time_in, time_out, cmd, fetches, report, df, means,
                   result, convCalls, outcome, wget, bulkVars, unitVars, otherVars>>

\* the request fails (connection error, or no answer within the 5 s
\* timeout): get_tides_noaa catches the RequestException and returns None
TideRequestFails ==
    /\ tide_pc = "requested"
    /\ reply = <<>>
    /\ TideEnd(None)

\* NOAA answers with an error object and no 'data' list: data['data']
\* raises KeyError, which get_tides_noaa does not catch
TideErrorReply ==
    /\ tide_pc = "requested"
    /\ reply = <<>>
    /\ TideEnd([kind |-> "KeyError"])

\* the answer is complete: get_tides_noaa builds the frame of its samples
\* and get_tide_sesh_data reduces it
TideReduce ==
    /\ tide_pc = "requested"
    /\ TideEnd(get_tides_noaa(reply))

\* session_form_submission after get_tide_data: an exception ends the
\* request; otherwise data.update(meteor_data), data.update(tide_data),
\* which raises TypeError for None, then insert_session_info
HandlerMerge ==
    /\ tide_pc = "done"
    /\ handler.merged = {} /\ handler.error = "none"
    /\ handler' =
          IF tide_outcome # "returned"
          THEN [handler EXCEPT !.error = tide_outcome]
          ELSE IF tide_data = None
          THEN [handler EXCEPT !.merged = {"meteor"}, !.error = "TypeError"]
          ELSE [handler EXCEPT !.merged = {"meteor", "tide"}, !.persisted = TRUE]
    /\ UNCHANGED <<tide_pc, reply, tides, tide_data, tide_outcome, tide_fetches>>
    /\ UNCHANGED <<pc, sesh_date, time_in, time_out, cmd, fetches, report, df, means,
                   result, convCalls, outcome, wget, bulkVars, unitVars, otherVars>>

NextTide ==
    TideCall \/ TideSample \/ TideRequestFails \/ TideErrorReply \/ TideReduce
        \/ HandlerMerge

SpecTide == Init /\ [][NextTide]_vars

-----------------------------------------------------------------------------
(* The UnitConverter functions applied on their own: the argument is drawn *)
(* at the start and the function applied to it.                            *)

\* the directions offered are -MaxDegrees..MaxDegrees, whole degrees
MaxDegrees == 800
\* the lengths offered are -MaxTenths..MaxTenths tenths of a meter
MaxTenths == 300

Degrees == (0 - MaxDegrees)..MaxDegrees
Lengths == {10 * k : k \in (0 - MaxTenths)..MaxTenths}

InitUnitsInputs ==
    /\ InitReductions /\ InitTide /\ InitOther
    /\ unit_out = [kind |-> "unset"]
    /\ \/ unit_op = "cardinal" /\ unit_in \in Degrees
       \/ unit_op = "round trip" /\ unit_in \in Lengths

\* find_cardinal_direction(unit_in), by the current module and by dataProc.py
FindCardinal ==
    /\ unit_op = "cardinal" /\ unit_out.kind = "unset"
    /\ unit_out' = [kind |-> "cardinal",
                    current |-> find_cardinal_direction(unit_in),
                    older   |-> find_cardinal_direction_dataProc(unit_in)]
    /\ UNCHANGED <<unit_op, unit_in>>
    /\ UNCHANGED <<pc, sesh_date, time_in, time_out, cmd, fetches, report, df, means,
                   result, convCalls, outcome, wget, bulkVars, tideVars, otherVars>>

\* feet_to_meters(meters_to_feet(unit_in))
RoundTrip ==
    /\ unit_op = "round trip" /\ unit_out.kind = "unset"
    /\ LET feet == meters_to_feet(Num(unit_in))
       IN unit_out' = [kind |-> "length", feet |-> feet, back |-> feet_to_meters(feet)]
    /\ UNCHANGED <<unit_op, unit_in>>
    /\ UNCHANGED <<pc, sesh_date, time_in, time_out, cmd, fetches, report, df, means,
                   result, convCalls, outcome, wget, bulkVars, tideVars, otherVars>>

NextUnits == FindCardinal \/ RoundTrip

SpecUnits == InitUnitsInputs /\ [][NextUnits]_vars

-----------------------------------------------------------------------------
(* One invocation of either computation: the windowed reduction or the     *)
(* tide computation, each from its call to its end.                        *)

NextOnce == (tide_pc = "idle" /\ Next) \/ (pc = "idle" /\ NextTide)

SpecOnce == Init /\ [][NextOnce]_vars

-----------------------------------------------------------------------------
(* Invocations one after another.  get_sesh_meteor_averages_2 and          *)
(* get_tide_data build a new BuoyData for every invocation and keep        *)
(* nothing: when an invocation has returned, its local state is gone.  One *)
(* finished invocation is kept aside (prev); from then on the invocations  *)
(* offered are those with its arguments and with a payload that starts as  *)
(* its payload did, at any wall-clock hour.                                *)

\* longest report offered to the invocations compared; the answers with
\* tide samples may hold one sample more, for a rising and a falling tide
MaxTwiceRows == 1

IsPrefix(a, b) == Len(a) <= Len(b) /\ \A i \in 1..Len(a) : a[i] = b[i]

\* what the fetch of the windowed reduction brought: whether wget
\* succeeded, and the rows of the report
Fetched == [got |-> wget # "failed", rows |-> report]

\* what the request of the tide computation brought: whether there was an
\* answer, and the samples of its 'data' list
TideFetched == [got |-> tides # None, rows |-> reply]

\* the session times of the invocations compared: before and after the
\* hours of the wall clock
TwiceTimes == {<<14, 0>>, <<16, 30>>, <<17, 0>>}

\* the invocations offered: sessions of 2024-09-08 with short reports and,
\* once an invocation is kept, with its arguments and payload
OfferedAgain ==
    /\ sesh_date = <<9, 8>>
    /\ time_in \in TwiceTimes /\ time_out \in TwiceTimes
    /\ Len(report) <= MaxTwiceRows
    /\ Len(reply) <= MaxTwiceRows + 1
    /\ (prev.kind = "windowed" /\ pc # "idle") =>
          /\ <<sesh_date, time_in, time_out>> = prev.args
          /\ IsPrefix(report, prev.payload.rows)
    /\ prev.kind = "tide" => IsPrefix(reply, prev.payload.rows)

\* the locals of get_mean_meteor_vals_2 and its BuoyData are gone
ReleaseWindowed ==
    /\ pc' = "idle"
    /\ sesh_date' = <<9, 8>> /\ time_in' = <<14, 0>> /\ time_out' = <<14, 0>>
    /\ cmd' = [err |-> "none"]
    /\ fetches' = 0
    /\ report' = <<>> /\ df' = <<>>
    /\ means' = EmptyDict /\ result' = EmptyDict
    /\ convCalls' = {}
    /\ outcome' = "none"
    /\ wget' = "idle"

\* the locals of get_tide_sesh_data and its BuoyData are gone
ReleaseTide ==
    /\ tide_pc' = "idle"
    /\ reply' = <<>>
    /\ tides' = [kind |-> "unset"] /\ tide_data' = [kind |-> "unset"]
    /\ tide_outcome' = "none"
    /\ handler' = [merged |-> {}, persisted |-> FALSE, error |-> "none"]
    /\ tide_fetches' = 0

\* a step of an invocation of the windowed reduction
WindowedAgain ==
    /\ tide_pc = "idle" /\ prev.kind \in {"none", "windowed"}
    /\ Next
    /\ OfferedAgain'

\* a step of an invocation of the tide computation
TideAgain ==
    /\ pc = "idle" /\ prev.kind \in {"none", "tide"}
    /\ NextTide
    /\ OfferedAgain'

\* the invocation of the windowed reduction is over: its locals and its
\* BuoyData are gone, the wall clock is anywhere; the invocation may be
\* the one kept
WindowedReturn ==
    /\ pc = "done"
    /\ \/ UNCHANGED prev
       \/ /\ prev.kind = "none"
          /\ prev' = [kind |-> "windowed", args |-> <<sesh_date, time_in, time_out>>,
                      payload |-> Fetched, outcome |-> outcome, result |-> result,
                      hour |-> now.hour]
    /\ ReleaseWindowed
    /\ \E clock \in BulkClocks : now' = clock
    /\ UNCHANGED <<curr_df, tideVars, unitVars, serverVars>>

\* the invocation of the tide computation is over
TideReturn ==
    /\ tide_pc = "done"
    /\ \/ UNCHANGED prev
       \/ /\ prev.kind = "none"
          /\ prev' = [kind |-> "tide", args |-> <<>>, payload |-> TideFetched,
                      outcome |-> tide_outcome, result |-> tide_data, hour |-> now.hour]
    /\ ReleaseTide
    /\ \E clock \in BulkClocks : now' = clock
    /\ UNCHANGED <<windowedVars, curr_df, unitVars, serverVars>>

NextTwice == WindowedAgain \/ TideAgain \/ WindowedReturn \/ TideReturn

SpecTwice == Init /\ [][NextTwice]_vars

-----------------------------------------------------------------------------
(* session_form_submission: one handling of a POST, in the current server  *)
(* (src/server.py, with LoggerDB) and in the older one (session-logger-    *)
(* backend/src/server.py, with module-level database functions).  The two  *)
(* computations run inside the handler, one after the other, by the        *)
(* actions above; their locals are gone when they return.                  *)

\* everything but the handling of the submission
outsideHandler == <<windowedVars, bulkVars, tideVars, unitVars, histVars, pollerVars, errorVars>>

\* timeIn and timeOut of the submissions offered
HandlerTimes == {<<14, 0>>, <<16, 30>>}

\* the keys of request.json
ClientFields == {"spot", "date", "timeIn", "timeOut", "rating"}

\* request.json after data['date'] = str(Timestamp(...).tz_convert(...))
ClientData(t_in, t_out) ==
    [k \in ClientFields |->
        CASE k = "spot" -> Str("Otter Rock")
          [] k = "date" -> <<9, 8>>
          [] k = "timeIn" -> t_in
          [] k = "timeOut" -> t_out
          [] k = "rating" -> Num(300)]

\* dict.update: the keys of e are set in d, the others stay
Update(d, e) == [k \in DOMAIN d \cup DOMAIN e |-> IF k \in DOMAIN e THEN e[k] ELSE d[k]]

\* the keys of the dict get_tide_sesh_data returns
TideKeys == {"incoming", "max_h", "min_h", "median_h"}

\* a result dict that also carries the date the request was made for
TideDictWithDate(t) ==
    [k \in TideKeys \cup {"date"} |-> IF k = "date" THEN <<9, 8>> ELSE t[k]]

\* the dict get_tide_sesh_data returns, as a mapping of its keys
TideDict(t) == [k \in TideKeys |-> t[k]]

\* the handler ends with an exception or a 500 return at stage f
Fails(f) == [sub EXCEPT !.pc = "done", !.failures = @ \cup {f}, !.status = 500]

\* the POST arrives
Submit ==
    /\ sub.pc = "idle"
    /\ \E variant \in {"current", "legacy"}, t_in \in HandlerTimes, t_out \in HandlerTimes :
          sub' = [sub EXCEPT !.pc = "connecting", !.variant = variant,
                             !.data = ClientData(t_in, t_out)]
    /\ UNCHANGED outsideHandler

\* connect_to_db: pyodbc.connect and conn.cursor(), or the OperationalError
\* that the current handler turns into a 500 and the older one lets escape
ConnectToDb ==
    /\ sub.pc = "connecting"
    /\ \/ sub' = [sub EXCEPT !.conn = "open", !.cursor = "open",
                              !.steps = Append(@, "connect"), !.pc = "lookup"]
       \/ sub' = Fails("connect")
    /\ UNCHANGED outsideHandler

\* what a station lookup can end with: the row's StationID, a pyodbc.Error
\* of execute, or the AttributeError of row.StationID when no row matches
LookupResults == {"id", "pyodbc.Error", "AttributeError"}

\* get_meteor_station, then get_tide_station.  LoggerDB re-raises the
\* pyodbc.Error and the current handler returns 500; the older functions
\* return jsonify(...) in its place, which the older handler takes for the
\* station id and goes on.  The AttributeError escapes from both.
Lookup ==
    /\ sub.pc = "lookup"
    /\ \E m \in LookupResults, t \in LookupResults :
          sub' =
             IF m = "id" /\ t = "id"
             THEN [sub EXCEPT !.meteor_station_id = "id", !.tide_station_id = "id",
                              !.steps = Append(@, "lookup"), !.pc = "reducing"]
             ELSE IF sub.variant = "legacy" /\ "AttributeError" \notin {m, t}
             THEN [sub EXCEPT !.meteor_station_id = IF m = "id" THEN "id" ELSE "Response",
                              !.tide_station_id = IF t = "id" THEN "id" ELSE "Response",
                              !.failures = @ \cup {"lookup"}, !.pc = "reducing"]
             ELSE Fails("lookup")
    /\ UNCHANGED outsideHandler

\* get_sesh_meteor_averages_2(data['date'], data['timeIn'], data['timeOut'],
\* meteor_station_id)
HandlerCallsReduction ==
    /\ sub.pc = "reducing"
    /\ pc = "idle"
    /\ sesh_date' = sub.data["date"]
    /\ time_in' = sub.data["timeIn"]
    /\ time_out' = sub.data["timeOut"]
    /\ pc' = "validating"
    /\ UNCHANGED <<cmd, fetches, report, df, means, result, convCalls, outcome, wget>>
    /\ UNCHANGED outsideWindowed

\* the reduction runs.  With a Response object for the station the command
\* line is "wget -qO- https://.../<Response ... [200 OK]>.txt | awk ...":
\* the shell takes "<Response" for a redirection and awk reads nothing.
ReductionStep ==
    /\ sub.pc = "reducing"
    /\ Validate \/ StartFetch \/ WgetRow \/ WgetFails \/ Reduce
    /\ Len(report') <= MaxTwiceRows
    /\ sub.meteor_station_id # "id" => report' = <<>>

\* an exception of the reduction that is swallowed: the handler goes on
\* with an empty meteor_data
ReductionReturnsAnyway ==
    /\ sub.pc = "reducing"
    /\ pc = "done"
    /\ sub' = IF outcome = "returned"
              THEN [sub EXCEPT !.meteor_data = result,
                               !.steps = Append(@, "reduction"), !.pc = "tide"]
              ELSE [sub EXCEPT !.meteor_data = EmptyDict,
                               !.failures = @ \cup {"reduction"}, !.pc = "tide"]
    /\ ReleaseWindowed
    /\ UNCHANGED <<bulkVars, tideVars, unitVars, histVars, pollerVars, errorVars>>

\* the reduction returns meteor_data, or its exception ends the handler
ReductionReturns ==
    /\ sub.pc = "reducing"
    /\ pc = "done"
    /\ sub' = IF outcome = "returned"
              THEN [sub EXCEPT !.meteor_data = result,
                               !.steps = Append(@, "reduction"), !.pc = "tide"]
              ELSE Fails("reduction")
    /\ ReleaseWindowed
    /\ UNCHANGED <<bulkVars, tideVars, unitVars, histVars, pollerVars, errorVars>>

\* get_tide_data(data, tide_station_id) runs.  With a Response object for
\* the station NOAA has no samples to answer with.
TideStep ==
    /\ sub.pc = "tide"
    /\ TideCall \/ TideSample \/ TideRequestFails \/ TideErrorReply \/ TideReduce
    /\ Len(reply') <= MaxTwiceRows
    /\ sub.tide_station_id # "id" => reply' = <<>>

\* the tide computation returns tide_data, or its exception ends the handler
TideReturns ==
    /\ sub.pc = "tide"
    /\ tide_pc = "done"
    /\ sub' = IF tide_outcome = "returned"
              THEN [sub EXCEPT !.tide_data = tide_data,
                               !.steps = Append(@, "tide"), !.pc = "merging"]
              ELSE Fails("tide")
    /\ ReleaseTide
    /\ UNCHANGED <<windowedVars, bulkVars, unitVars, histVars, pollerVars, errorVars>>

\* data.update(meteor_data); data.update(tide_data), which raises
\* TypeError when tide_data is None
Merge ==
    /\ sub.pc = "merging"
    /\ sub' = IF sub.tide_data = None
              THEN [Fails("merge") EXCEPT !.data = Update(sub.data, sub.meteor_data)]
              ELSE [sub EXCEPT !.data = Update(Update(sub.data, sub.meteor_data),
                                               TideDict(sub.tide_data)),
                               !.steps = Append(@, "merge"), !.pc = "inserting"]
    /\ UNCHANGED outsideHandler

\* insert_session_info: execute and commit, or a pyodbc.Error, which
\* LoggerDB re-raises and the current handler returns as a 500 while the
\* older function swallows it and the older handler goes on to close
InsertSessionInfo ==
    /\ sub.pc = "inserting"
    /\ \/ sub' = [sub EXCEPT !.inserts = @ + 1, !.steps = Append(@, "insert"),
                              !.pc = "closing"]
       \/ sub' = IF sub.variant = "legacy"
                 THEN [sub EXCEPT !.inserts = @ + 1, !.failures = @ \cup {"insert"},
                                  !.pc = "closing"]
                 ELSE [Fails("insert") EXCEPT !.inserts = @ + 1]
    /\ UNCHANGED outsideHandler

\* cursor.close(); conn.close(); return the success message
CloseAndReturn ==
    /\ sub.pc = "closing"
    /\ sub' = [sub EXCEPT !.cursor = "closed", !.conn = "closed",
                          !.steps = Append(@, "close"), !.status = 200, !.pc = "done"]
    /\ UNCHANGED outsideHandler

NextHandler ==
    Submit \/ ConnectToDb \/ Lookup \/ HandlerCallsReduction \/ ReductionStep
        \/ ReductionReturns \/ TideStep \/ TideReturns \/ Merge \/ InsertSessionInfo
        \/ CloseAndReturn

SpecHandler == Init /\ [][NextHandler]_vars

-----------------------------------------------------------------------------
(* The polling threads of the older server (session-logger-backend/src/    *)
(* server.py): initialize_buoy_ping_thread starts one daemon thread per    *)
(* station, each running ping_station.  A dump is "wget -O file url" run   *)
(* by os.system: wget opens and truncates the file, writes what arrives    *)
(* and exits; os.system returns its status and raises nothing.  The        *)
(* BuoyData of that server reads RAW_meteor_data_46050.csv when it is      *)
(* constructed, in the thread of a request.  No lock is taken anywhere.    *)

\* everything but the threads and the files
outsidePollers ==
    <<windowedVars, bulkVars, tideVars, unitVars, histVars, handlerVars, errorVars>>

MeteorFile(st) == [kind |-> "meteor", station |-> st]
SpectralFile(st) == [kind |-> "spectral", station |-> st]

\* self.stonewall_bank_csv, when the relative path of BuoyData and the
\* path of dump_full_meteor_data name the same directory
stonewall_bank_csv == MeteorFile("46050")

\* a file of another directory, which no thread writes
ElsewhereFile == [kind |-> "meteor", station |-> "elsewhere"]

\* wget -O opens the file: it is truncated and thread st is writing it
Opens(f, st) == [files EXCEPT ![f] = [writers |-> @.writers \cup {st}, content |-> "partial"]]

\* wget exits: a whole report is in the file, or, after a failed download,
\* what wget left of it
Closes(f, st, ok) ==
    [files EXCEPT ![f] = [writers |-> @.writers \ {st},
                          content |-> IF ok THEN "whole" ELSE "empty"]]

\* initialize_buoy_ping_thread: station_thread.start() for the next station
\* of the list
StartThread ==
    /\ \E i \in 1..Len(station_list) :
          /\ poller[station_list[i]].pc = "unstarted"
          /\ \A j \in 1..(i - 1) : poller[station_list[j]].pc # "unstarted"
          /\ poller' = [poller EXCEPT ![station_list[i]].pc = "top"]
    /\ UNCHANGED <<files, reader>>
    /\ UNCHANGED outsidePollers

\* ping_station, top of the loop: dump_full_meteor_data starts wget
MeteorDumpOpens(st) ==
    /\ poller[st].pc = "top"
    /\ poller' = [poller EXCEPT ![st].pc = "meteor", ![st].dumped = {}]
    /\ files' = Opens(MeteorFile(st), st)
    /\ UNCHANGED reader
    /\ UNCHANGED outsidePollers

\* a failed download raises in the thread, which ends
MeteorDumpEndsOrRaises(st) ==
    /\ poller[st].pc = "meteor"
    /\ \E ok \in BOOLEAN :
          /\ poller' = [poller EXCEPT ![st].pc = IF ok THEN "between" ELSE "dead",
                                       ![st].failed = @ \/ ~ok,
                                       ![st].dumped = IF ok THEN @ \cup {"meteor"} ELSE @]
          /\ files' = Closes(MeteorFile(st), st, ok)
    /\ UNCHANGED reader
    /\ UNCHANGED outsidePollers

\* wget exits with or without the report; system(cmd) returns and
\* dump_full_meteor_data prints its message and returns
MeteorDumpEnds(st) ==
    /\ poller[st].pc = "meteor"
    /\ \E ok \in BOOLEAN :
          /\ poller' = [poller EXCEPT ![st].pc = "between",
                                       ![st].failed = @ \/ ~ok,
                                       ![st].dumped = @ \cup {"meteor"}]
          /\ files' = Closes(MeteorFile(st), st, ok)
    /\ UNCHANGED reader
    /\ UNCHANGED outsidePollers

\* dump_raw_spec_data starts wget
SpecDumpOpens(st) ==
    /\ poller[st].pc = "between"
    /\ poller' = [poller EXCEPT ![st].pc = "spectral"]
    /\ files' = Opens(SpectralFile(st), st)
    /\ UNCHANGED reader
    /\ UNCHANGED outsidePollers

\* wget exits, dump_raw_spec_data returns, sleep(1200) begins
SpecDumpEnds(st) ==
    /\ poller[st].pc = "spectral"
    /\ \E ok \in BOOLEAN :
          /\ poller' = [poller EXCEPT ![st].pc = "sleeping",
                                       ![st].failed = @ \/ ~ok,
                                       ![st].dumped = @ \cup {"spectral"}]
          /\ files' = Closes(SpectralFile(st), st, ok)
    /\ UNCHANGED reader
    /\ UNCHANGED outsidePollers

\* sleep(1200) is over: while True goes round
Wake(st) ==
    /\ poller[st].pc = "sleeping"
    /\ poller' = [poller EXCEPT ![st].pc = "top"]
    /\ UNCHANGED <<files, reader>>
    /\ UNCHANGED outsidePollers

\* the steps of the thread of station st
PollerStep(st) ==
    MeteorDumpOpens(st) \/ MeteorDumpEnds(st) \/ SpecDumpOpens(st) \/ SpecDumpEnds(st)
        \/ Wake(st)

\* BuoyData.__init__ in the thread of a request: build_da_frame opens
\* self.stonewall_bank_csv and read_csv begins to read.  Whether that
\* relative path and the "~/Users/..." path of the dump are one directory
\* depends on the working directory and on HOME.
BuoyDataReads ==
    /\ reader.pc = "idle"
    /\ \E f \in {stonewall_bank_csv, ElsewhereFile} :
          reader' = [pc |-> "reading", file |-> f, got |-> "none"]
    /\ UNCHANGED <<poller, files>>
    /\ UNCHANGED outsidePollers

\* read_csv has read to the end of what the file holds by now
BuoyDataReadEnds ==
    /\ reader.pc = "reading"
    /\ reader' = [pc |-> "idle", file |-> "none",
                  got |-> IF reader.file \in FileNames THEN files[reader.file].content
                          ELSE "whole"]
    /\ UNCHANGED <<poller, files>>
    /\ UNCHANGED outsidePollers

NextPollers ==
    StartThread \/ (\E st \in Stations : PollerStep(st)) \/ BuoyDataReads
        \/ BuoyDataReadEnds

SpecPollers == Init /\ [][NextPollers]_vars

\* The same with fair scheduling: the loop of initialize_buoy_ping_thread
\* goes on to its end, and every started thread is given the processor
\* again and again; wget ends, with or without the report, and so does
\* sleep(1200).  A request (the reader) need not arrive.
SpecPollersFair ==
    /\ Init /\ [][NextPollers]_vars
    /\ WF_vars(StartThread)
    /\ \A st \in Stations : WF_vars(PollerStep(st))

-----------------------------------------------------------------------------
(* parse_time_and_date on its own, by BuoyData and by misc/scratch.py: the *)
(* arguments are drawn at the start, over every day of 2024, and each of   *)
(* the two functions is applied to them.                                   *)

\* every day of 2024
AllDates == {<<mo, d>> : mo \in 1..12, d \in 1..31} \ {<<mo, d>> \in (1..12) \X (1..31) : d > DaysInMonth[mo]}

\* start times: midnight, the hours the clock changes at, afternoon, and
\* the hours that are the next day in UTC
ParseStarts == {<<0, 0>>, <<1, 30>>, <<2, 30>>, <<15, 30>>, <<16, 30>>, <<17, 0>>, <<23, 30>>}

\* end times
ParseEnds == {<<2, 30>>, <<17, 0>>}

InitParseInputs ==
    /\ pc = "idle"
    /\ sesh_date \in AllDates
    /\ time_in \in ParseStarts
    /\ time_out \in ParseEnds
    /\ cmd = [err |-> "none"]
    /\ fetches = 0
    /\ report = <<>> /\ df = <<>>
    /\ means = EmptyDict /\ result = EmptyDict
    /\ convCalls = {}
    /\ outcome = "none"
    /\ wget = "idle"
    /\ curr_df = <<>>
    /\ now = [day |-> 8, hour |-> 15]
    /\ InitTide /\ InitUnits /\ InitOther

\* BuoyData.parse_time_and_date(sesh_date, time_in, time_out)
ParseCurrent ==
    /\ pc = "idle"
    /\ cmd' = parse_time_and_date(sesh_date, time_in, time_out)
    /\ pc' = "parsed"
    /\ UNCHANGED <<sesh_date, time_in, time_out, fetches, report, df, means, result,
                   convCalls, outcome, wget>>
    /\ UNCHANGED outsideWindowed

\* parse_time_and_date(date, time_in, time_out) of misc/scratch.py
ParseScratch ==
    /\ unit_op = "none"
    /\ unit_op' = "scratch parse"
    /\ unit_out' = parse_time_and_date_scratch(sesh_date, time_in, time_out)
    /\ UNCHANGED unit_in
    /\ UNCHANGED <<windowedVars, bulkVars, tideVars, otherVars>>

NextParse == ParseCurrent \/ ParseScratch

SpecParse == InitParseInputs /\ [][NextParse]_vars

-----------------------------------------------------------------------------
(* CustFlaskException and its registered handler handle_bad_file.  The     *)
(* exception is the mapping of its instance attributes: the class defines  *)
(* none, so an attribute exists only if __init__ has set it.               *)

\* everything but the exception being handled
outsideError ==
    <<windowedVars, bulkVars, tideVars, unitVars, histVars, handlerVars, pollerVars>>

\* an argument that was passed and is not None
Given(v) == [kind |-> "given", v |-> v]

\* the arguments offered to the constructor
Messages == {"Unable to locate data.", "Bad file."}
StatusCodes == {None, Given(404), Given(400), Given(500)}
Payloads == {None, Given(EmptyDict), Given([detail |-> "no such station"]),
             Given([message |-> "from the payload"]),
             Given([detail |-> "no such station", station |-> "46050"])}

\* CustFlaskException.__init__: self.message always, self.status_code and
\* self.payload only when the argument is not None
CustFlaskException(message, status_code, payload) ==
    [a \in {"message"} \cup (IF status_code # None THEN {"status_code"} ELSE {})
                        \cup (IF payload # None THEN {"payload"} ELSE {}) |->
        CASE a = "message" -> message
          [] a = "status_code" -> status_code.v
          [] a = "payload" -> payload.v]

\* CustFlaskException.to_dict: rv = dict(self.payload or ()), which raises
\* AttributeError when there is no such attribute and copies the payload
\* otherwise (an empty one included); rv['message'] = self.message
to_dict(self) ==
    IF "payload" \notin DOMAIN self
    THEN [err |-> "AttributeError"]
    ELSE [err |-> "none",
          rv |-> Update(self["payload"], [k \in {"message"} |-> self["message"]])]

\* raise CustFlaskException(message, status_code, payload) in a request
Raise ==
    /\ error.pc = "idle"
    /\ \E message \in Messages, status_code \in StatusCodes, payload \in Payloads :
          error' = [pc |-> "raised", exc |-> CustFlaskException(message, status_code, payload)]
    /\ UNCHANGED outsideError

\* handle_bad_file: response = jsonify(error.to_dict()).  An exception of
\* the handler is Flask's to answer: 500 Internal Server Error.
HandlerToDict ==
    /\ error.pc = "raised"
    /\ LET d == to_dict(error.exc)
       IN error' = IF d.err # "none"
                   THEN [pc |-> "responded", exc |-> error.exc, rv |-> d,
                         response |-> [by |-> "flask", status |-> 500, raised |-> d.err]]
                   ELSE [pc |-> "jsonified", exc |-> error.exc, rv |-> d]
    /\ UNCHANGED outsideError

\* response.status_code = error.status_code; return response
HandlerSetsStatus ==
    /\ error.pc = "jsonified"
    /\ error' = IF "status_code" \notin DOMAIN error.exc
                THEN [error EXCEPT !.pc = "responded"] @@
                     [response |-> [by |-> "flask", status |-> 500, raised |-> "AttributeError"]]
                ELSE [error EXCEPT !.pc = "responded"] @@
                     [response |-> [by |-> "handle_bad_file",
                                    status |-> error.exc["status_code"], body |-> error.rv.rv]]
    /\ UNCHANGED outsideError

NextError == Raise \/ HandlerToDict \/ HandlerSetsStatus

SpecError == Init /\ [][NextError]_vars

-----------------------------------------------------------------------------
(* Properties of the windowed reduction *)

\* the call ended after its fetch: the frame was reduced
Reduced == pc = "done" /\ fetches > 0

\* awk printed the report line (the lines of a report differ in their timestamps)
Kept(row) == \E j \in 1..Len(df) : df[j] = row

\* t1 is strictly earlier than t2, both <<hour, minute>> of the same day
Earlier(t1, t2) == t1[1] < t2[1] \/ (t1[1] = t2[1] /\ t1[2] < t2[2])

\* (h1, m1) <= (h2, m2) in lexicographic order
LexLE(h1, m1, h2, m2) == h1 < h2 \/ (h1 = h2 /\ m1 <= m2)

\* the UTC instants of the session's start and end, in minutes since
\* 2024-01-01 00:00
UtcStart == AbsMinute(Timestamp(sesh_date, time_in))
                + 60 * PacificOffset(Timestamp(sesh_date, time_in))
UtcEnd == AbsMinute(Timestamp(sesh_date, time_out))
                + 60 * PacificOffset(Timestamp(sesh_date, time_out))

\* C1: whenever the call ends with InvalidTimeframeException no fetch has
\* been started in it, and a fetch is only ever started for a time frame
\* that passed the validation: validation precedes the fetch.
C1_ValidationPrecedesFetch ==
    /\ outcome = "InvalidTimeframeException" => fetches = 0 /\ report = <<>>
    /\ fetches > 0 => ~InvalidTimeframe(time_in, time_out)

\* a call that ended with InvalidTimeframeException
C1_Witness ==
    /\ pc = "done"
    /\ outcome = "InvalidTimeframeException"
    /\ time_in = <<17, 0>> /\ time_out = <<14, 0>>

\* C2: for every pair of times in which time_in is not strictly earlier
\* than time_out (same hour and equal times included) the call ends with
\* InvalidTimeframeException: once the validation is over the exception has
\* been raised.
C2_NotEarlierFailsInvalidTimeframe ==
    (pc \notin {"idle", "validating"} /\ ~Earlier(time_in, time_out))
        => outcome = "InvalidTimeframeException"

\* C3: a report line is kept if and only if its (month, day) equal the
\* resolved (month, day) and its (hour, minute) lies between (hourIn,
\* minuteIn) and (hourOut, minuteOut) in lexicographic order.
C3_RowKeptIffInLexWindow ==
    Reduced =>
        \A i \in 1..Len(report) :
            LET row == report[i]
            IN Kept(row) <=>
                  /\ row.MM = AwkNum(cmd.month) /\ row.DD = AwkNum(cmd.day)
                  /\ LexLE(AwkNum(cmd.hr_in), AwkNum(cmd.min_in), row.hh, row.mm)
                  /\ LexLE(row.hh, row.mm, AwkNum(cmd.hr_out), AwkNum(cmd.min_out))

\* C4: for a session whose start and end fall on different UTC calendar
\* days, a report line is kept if and only if its UTC timestamp lies
\* between the converted start and end.
C4_RolloverKeepsExactlyTheInterval ==
    (Reduced /\ StampOfMinute(UtcStart).day # StampOfMinute(UtcEnd).day) =>
        \A i \in 1..Len(report) :
            Kept(report[i]) <=>
                (UtcStart <= RowMinuteAbs(report[i]) /\ RowMinuteAbs(report[i]) <= UtcEnd)

\* the Pacific offset of a wall-clock reading of 2024, by the calendar: PDT
\* from the second Sunday of March (the 10th, 03:00) to the first Sunday of
\* November (the 3rd), PST otherwise
CalendarOffset(date, time) ==
    IF \/ date[1] \in 4..10
       \/ (date[1] = 3 /\ (date[2] > 10 \/ (date[2] = 10 /\ time[1] >= 3)))
       \/ (date[1] = 11 /\ (date[2] < 3 \/ (date[2] = 3 /\ time[1] < 1)))
    THEN 7 ELSE 8

RECURSIVE Observations(_, _, _)
Observations(frame, c, i) ==
    IF i = 0 THEN [n |-> 0, sum |-> 0]
    ELSE LET rest == Observations(frame, c, i - 1)
             tok  == frame[i][c]
         IN IF tok # "MM" /\ IsNum(to_numeric(tok))
            THEN [n |-> rest.n + 1, sum |-> rest.sum + to_numeric(tok).v]
            ELSE rest

Abs(x) == IF x >= 0 THEN x ELSE -x

\* C6: for each target column the statistic before conversion is the mean
\* of exactly the non-null numeric values of the selected rows, rounded to
\* 2 decimals (within half a hundredth of sum / n); "MM" adds neither to the
\* sum nor to the count, and with no value at all the mean is undefined (NaN).
C6_MeanOfNonNullRounded ==
    Reduced =>
        \A c \in ColSet :
            LET obs == Observations(df, c, Len(df))
            IN IF obs.n = 0 THEN IsNaN(means[c])
               ELSE /\ IsNum(means[c])
                    /\ 2 * Abs(obs.n * means[c].v - obs.sum) <= obs.n

\* three selected rows with wind speeds 7.0, MM, 5.0: the mean is 6.00
C6_Witness ==
    /\ Reduced
    /\ Len(df) = 3
    /\ df[1].WSPD = "7.0" /\ df[2].WSPD = "MM" /\ df[3].WSPD = "5.0"
    /\ df[1].mm = 20 /\ df[3].mm = 0
    /\ means["WSPD"] = Num(600)

\* every observation of column c in the selected rows is "MM" (or there is
\* no selected row)
AllMissing(c) == \A i \in 1..Len(df) : df[i][c] = "MM"

\* C7: when every observation of a target column is "MM" (or no row is
\* selected) the reduction returns, its statistics have no entry for that
\* column, and they have the other columns.
C7_AllMissingColumnIsAbsent ==
    (Reduced /\ \E c \in ColSet : AllMissing(c)) =>
        /\ outcome = "returned"
        /\ \A c \in ColSet : IF AllMissing(c) THEN c \notin DOMAIN result
                             ELSE c \in DOMAIN result

\* C8: the conversion never passes an absent mean (NaN) to a UnitConverter
\* function, produces no _CARD field for an absent direction, and completes
\* without error.
C8_AbsentMeanNeverConverted ==
    Reduced =>
        /\ \A call \in convCalls : ~IsNaN(call.arg)
        /\ outcome = "returned"
        /\ IsNaN(means["WDIR"]) => "WDIR_CARD" \notin DOMAIN result
        /\ IsNaN(means["MWD"]) => "MWD_CARD" \notin DOMAIN result

\* C9: every mean that is present, a mean of 0 included, is returned in
\* display units: WSPD and GST in mph, WVHT in feet, ATMP and WTMP in
\* degrees Fahrenheit, each rounded to 1 decimal.
C9_PresentMeansInDisplayUnits ==
    (Reduced /\ outcome = "returned") =>
        /\ \A k \in {"WSPD", "GST"} :
              IsNum(means[k]) => result[k] = meters_per_sec_to_mph(means[k])
        /\ IsNum(means["WVHT"]) => result["WVHT"] = meters_to_feet(means["WVHT"])
        /\ \A k \in {"ATMP", "WTMP"} :
              IsNum(means[k]) => result[k] = celsius_to_fahrenheit(means[k])

\* C10: whenever the mean of WDIR (of MWD) is present, a mean of 0 degrees
\* included, the converted statistics hold it unchanged and hold WDIR_CARD
\* (MWD_CARD), the cardinal direction of that mean; DPD is unchanged.
C10_DirectionKeptAndCardinalAdded ==
    (Reduced /\ outcome = "returned") =>
        /\ \A k \in {"WDIR", "MWD"} :
              IsNum(means[k]) =>
                 /\ result[k] = means[k]
                 /\ (k \o "_CARD") \in DOMAIN result
                 /\ result[k \o "_CARD"]
                       = Str(find_cardinal_direction(IntTrunc(means[k].v)))
        /\ result["DPD"] = means["DPD"]

-----------------------------------------------------------------------------
(* Properties of the error handling of the reductions *)

\* the cell is text that is neither the missing-value token nor a number
Unparseable(tok) == tok # "MM" /\ IsNaN(to_numeric(tok))

\* the rows the call selected hold an unparseable value in a target column
SelectedUnparseable == \E i \in 1..Len(df), c \in ColSet : Unparseable(df[i][c])

\* both direction columns of the selected rows have a numeric value
DirectionsObserved ==
    \A c \in {"WDIR", "MWD"} : Observations(df, c, Len(df)).n > 0

\* C11: a reduction, windowed or bulk, whose selected rows hold a value
\* that cannot be parsed as a number does not fail because of it: (given
\* direction columns with a value) it returns, the unparseable value counts
\* as null, so every column's mean is the mean of its parseable values, and
\* a column without such a value has the mean it has without the others.
C11_UnparseableNeverFailsReduction ==
    (pc = "done" /\ SelectedUnparseable /\ DirectionsObserved) =>
        /\ outcome = "returned"
        /\ \A c \in ColSet :
              LET obs == Observations(df, c, Len(df))
              IN IF obs.n = 0 THEN IsNaN(means[c])
                 ELSE /\ IsNum(means[c])
                      /\ 2 * Abs(obs.n * means[c].v - obs.sum) <= obs.n

\* C12: when the meteorological source is unreachable (wget failed) or the
\* payload is empty, the windowed reduction ends with a DataUnavailable
\* error: it returns no statistics mapping and fails with no other error.
C12_UnreachableSourceFailsDataUnavailable ==
    (Reduced /\ (wget = "failed" \/ report = <<>>)) =>
        outcome = "DataUnavailable" /\ result = EmptyDict

-----------------------------------------------------------------------------
(* Properties of the tide computation *)

\* the tide computation is over and had no series to work on: the request
\* failed, or the answer held no sample
TideFetchFailed == tide_pc = "done" /\ tides.kind # "frame"

\* C13: when the tide fetch fails or answers with an empty series,
\* get_tide_sesh_data fails with DataUnavailable: it returns neither None
\* nor any other value, and the submission handler neither merges nor
\* persists anything after it.
C13_TideFailureIsDataUnavailable ==
    TideFetchFailed =>
        /\ tide_outcome = "DataUnavailable"
        /\ tide_data.kind = "unset"
        /\ handler.merged = {} /\ ~handler.persisted

\* get_tide_sesh_data returned its dict for the series in reply
TideReturnedDict == tide_pc = "done" /\ tide_data.kind = "dict"

\* sample i is the first of the series to hold its largest (smallest) value
FirstHighest(i) ==
    /\ \A k \in 1..Len(reply) : reply[k].v <= reply[i].v
    /\ \A k \in 1..(i - 1) : reply[k].v < reply[i].v
FirstLowest(i) ==
    /\ \A k \in 1..Len(reply) : reply[k].v >= reply[i].v
    /\ \A k \in 1..(i - 1) : reply[k].v > reply[i].v

\* C14: for every non-empty series the incoming flag is true exactly when
\* the timestamp of the sample holding the maximum is strictly later than
\* the timestamp of the sample holding the minimum.
C14_IncomingIffMaxLaterThanMin ==
    TideReturnedDict =>
        (tide_data.incoming <=>
            \E i, j \in 1..Len(reply) :
                FirstHighest(i) /\ FirstLowest(j) /\ reply[i].t > reply[j].t)

\* a series whose maximum comes before its minimum in the list and after
\* it in time: incoming
C14_Witness ==
    /\ TideReturnedDict /\ tide_data.incoming
    /\ \E i, j \in 1..Len(reply) : FirstHighest(i) /\ FirstLowest(j) /\ i < j

\* the series 1.2 at t0, 3.5 at t1, 0.4 at t2 with t0 < t2 < t1
ExampleSeries ==
    <<[t |-> 600, v |-> 120], [t |-> 660, v |-> 350], [t |-> 630, v |-> 40]>>

\* C15 as stated: for the series 1.2 at t0, 3.5 at t1, 0.4 at t2, t1 after
\* t2 after t0, the result is incoming=false, max=3.5, min=0.4, median=1.2.
C15_ExampleSeriesNotIncoming ==
    (TideReturnedDict /\ reply = ExampleSeries) =>
        /\ tide_data.incoming = FALSE
        /\ tide_data.max_h = 350 /\ tide_data.min_h = 40 /\ tide_data.median_h = 120

\* C15, amended: for that series the result is incoming=true (the maximum,
\* at t1, is later than the minimum, at t2), max=3.5, min=0.4, median=1.2.
C15_ExampleSeriesIncoming ==
    (TideReturnedDict /\ reply = ExampleSeries) =>
        /\ tide_data.incoming = TRUE
        /\ tide_data.max_h = 350 /\ tide_data.min_h = 40 /\ tide_data.median_h = 120

C15_Witness == TideReturnedDict /\ reply = ExampleSeries

\* C16: for every non-empty series max_h is its largest value, min_h its
\* smallest and median_h its median (at least half of the samples are not
\* above it and at least half not below it), so min_h <= median_h <= max_h;
\* the direction rule uses the first occurrence of a repeated maximum or
\* minimum, so a series of one sample or of equal values is not incoming.
C16_ExtremesMedianAndTies ==
    TideReturnedDict =>
        LET n  == Len(reply)
            vs == {reply[i].v : i \in 1..n}
            notAbove == Cardinality({i \in 1..n : reply[i].v <= tide_data.median_h})
            notBelow == Cardinality({i \in 1..n : reply[i].v >= tide_data.median_h})
        IN /\ tide_data.max_h \in vs /\ \A v \in vs : v <= tide_data.max_h
           /\ tide_data.min_h \in vs /\ \A v \in vs : v >= tide_data.min_h
           /\ 2 * notAbove >= n /\ 2 * notBelow >= n
           /\ n % 2 = 1 => tide_data.median_h \in vs
           /\ tide_data.min_h <= tide_data.median_h
           /\ tide_data.median_h <= tide_data.max_h
           /\ \A i, j \in 1..n :
                 (FirstHighest(i) /\ FirstLowest(j)) =>
                     (tide_data.incoming <=> reply[i].t > reply[j].t)
           /\ Cardinality(vs) = 1 => ~tide_data.incoming

\* samples of one value at increasing times: not incoming
C16_Witness ==
    /\ TideReturnedDict /\ ~tide_data.incoming
    /\ Len(reply) > 1
    /\ \A i \in 1..Len(reply) : reply[i].v = reply[1].v
    /\ \A i \in 1..(Len(reply) - 1) : reply[i].t < reply[i + 1].t

-----------------------------------------------------------------------------
(* Properties of the UnitConverter functions *)

CompassPoints == {"N", "NE", "E", "SE", "S", "SW", "W", "NW"}

\* C17: for every integer d, find_cardinal_direction(d) is the compass
\* point whose 45-degree bucket is centred on d: the element at index
\* floor(((d mod 360) + 22.5) / 45) mod 8 of [N, NE, E, SE, S, SW, W, NW].
C17_CardinalBucketsCentred ==
    unit_out.kind = "cardinal" =>
        unit_out.current = find_cardinal_direction_centered(unit_in)

\* C18: for every integer d, negative or above 360 included,
\* find_cardinal_direction(d) is one of the eight compass points and equals
\* find_cardinal_direction(d + 360); so for the function of dataProc.py.
C18_CardinalTotalAndPeriodic ==
    unit_out.kind = "cardinal" =>
        /\ unit_out.current \in CompassPoints
        /\ unit_out.current = find_cardinal_direction(unit_in + 360)
        /\ unit_out.older \in CompassPoints
        /\ unit_out.older = find_cardinal_direction_dataProc(unit_in + 360)

\* a negative direction: -10 is NW, as 350 is
C18_Witness ==
    unit_out.kind = "cardinal" /\ unit_in = 0 - 10 /\ unit_out.current = "NW"

\* C19 as stated: find_cardinal_direction returns N for 0, N for 44, NE for
\* 45 and N for 337.
C19_BoundaryExamples ==
    unit_out.kind = "cardinal" =>
        /\ unit_in = 0 => unit_out.current = "N"
        /\ unit_in = 44 => unit_out.current = "N"
        /\ unit_in = 45 => unit_out.current = "NE"
        /\ unit_in = 337 => unit_out.current = "N"

\* C19, amended: find_cardinal_direction returns N for 0, N for 44, NE for
\* 45 and NW for 337.
C19_BoundaryExamplesAmended ==
    unit_out.kind = "cardinal" =>
        /\ unit_in = 0 => unit_out.current = "N"
        /\ unit_in = 44 => unit_out.current = "N"
        /\ unit_in = 45 => unit_out.current = "NE"
        /\ unit_in = 337 => unit_out.current = "NW"

C19_Witness == unit_out.kind = "cardinal" /\ unit_in = 337 /\ unit_out.current = "NW"

\* C20: for every length x in meters given to one decimal,
\* feet_to_meters(meters_to_feet(x)) differs from x by at most 0.1 (10
\* hundredths), both conversions rounding to one decimal.
C20_RoundTripWithinOneTenth ==
    unit_out.kind = "length" =>
        /\ IsNum(unit_out.back)
        /\ Abs(unit_out.back.v - unit_in) <= 10
        /\ unit_out.feet.v % 10 = 0 /\ unit_out.back.v % 10 = 0

\* 3.2 m is 10.5 ft, which is 3.2 m again
C20_Witness ==
    /\ unit_out.kind = "length" /\ unit_in = 320
    /\ unit_out.feet = Num(1050) /\ unit_out.back = Num(320)

-----------------------------------------------------------------------------
(* Properties of the invocations and of the submission handler *)

\* C21: in one invocation the windowed reduction starts at most one fetch
\* of the meteorological source and the tide computation sends at most one
\* request to the tide provider, whether the fetch succeeds or fails:
\* nothing is fetched again after a failure.
C21_AtMostOneFetchPerInvocation ==
    /\ fetches <= 1
    /\ tide_fetches <= 1
    /\ wget = "failed" => fetches = 1
    /\ tides = None => tide_fetches = 1

\* the windowed reduction ended after a fetch that failed
C21_Witness == pc = "done" /\ wget = "failed" /\ fetches = 1

\* C22: the windowed reduction and the tide computation are functions of
\* their arguments and of the fetched payload: an invocation with the
\* arguments and the payload of the invocation kept ends as that one did,
\* with the same error or the same result, whatever ran before and
\* whatever the hour is.
C22_EqualInputsEqualResults ==
    /\ (pc = "done" /\ prev.kind = "windowed"
           /\ <<sesh_date, time_in, time_out>> = prev.args /\ Fetched = prev.payload) =>
          /\ outcome = prev.outcome
          /\ outcome = "returned" => result = prev.result
    /\ (tide_pc = "done" /\ prev.kind = "tide" /\ TideFetched = prev.payload) =>
          /\ tide_outcome = prev.outcome
          /\ tide_outcome = "returned" => tide_data = prev.result

\* a second invocation with the same arguments and report, at another
\* hour, returned
C22_Witness ==
    /\ pc = "done" /\ prev.kind = "windowed" /\ outcome = "returned"
    /\ <<sesh_date, time_in, time_out>> = prev.args
    /\ Fetched = prev.payload /\ report # <<>>
    /\ now.hour # prev.hour
    /\ time_in[1] > now.hour

\* C23: in every handling of a submission the insert is executed at most
\* once, and only after the connection, the station lookups, the reduction
\* and the tide computation have succeeded, in that order; when one of them
\* failed there is no insert.
C23_InsertOnceAfterAllSucceeded ==
    /\ sub.inserts <= 1
    /\ sub.inserts = 1 =>
          /\ Len(sub.steps) >= 4
          /\ SubSeq(sub.steps, 1, 4) = <<"connect", "lookup", "reduction", "tide">>
    /\ sub.failures \cap {"connect", "lookup", "reduction", "tide"} # {} => sub.inserts = 0

\* the older handler went on after a failed lookup and ended without an
\* insert
C23_Witness ==
    /\ sub.pc = "done" /\ sub.variant = "legacy"
    /\ "lookup" \in sub.failures /\ sub.failures # {"lookup"}
    /\ sub.inserts = 0

\* the part of a dict under the keys ks
Restrict(d, ks) == [k \in ks \cap DOMAIN d |-> d[k]]

\* C24: the record handed to the insert is the same whichever of
\* meteor_data and tide_data is merged first, the merges leave the client's
\* fields (spot, date, timeIn, timeOut, rating) as they were, and the keys
\* of the client's fields, of meteor_data and of tide_data are pairwise
\* disjoint.
C24_MergeOrderIrrelevant ==
    /\ (sub.pc = "merging" /\ sub.tide_data # None) =>
          LET m == sub.meteor_data
              t == TideDict(sub.tide_data)
              meteorFirst == Update(Update(sub.data, m), t)
              tideFirst == Update(Update(sub.data, t), m)
          IN /\ meteorFirst = tideFirst
             /\ DOMAIN sub.data = ClientFields
             /\ \A k \in ClientFields : meteorFirst[k] = sub.data[k]
             /\ DOMAIN sub.data \cap DOMAIN m = {}
             /\ DOMAIN sub.data \cap DOMAIN t = {}
             /\ DOMAIN m \cap DOMAIN t = {}
    /\ sub.pc \in {"inserting", "closing"} =>
          /\ sub.data = Update(Update(Restrict(sub.data, ClientFields),
                                      TideDict(sub.tide_data)), sub.meteor_data)
          /\ Restrict(sub.data, ClientFields) =
                ClientData(sub.data["timeIn"], sub.data["timeOut"])

\* a merged record is about to be inserted
C24_Witness ==
    /\ sub.pc = "inserting"
    /\ {"spot", "WDIR_CARD", "WVHT", "median_h"} \subseteq DOMAIN sub.data
    /\ sub.data["WVHT"] # NaN

\* C25: when the legacy reduction has filtered the frame, the rows kept are
\* those whose day of month is today's and whose hour, as an integer, lies
\* in start hour + 7 .. end hour + 7: hours 07, 08 and 09 included.
C25_KeptIffTodayAndHourInRange ==
    (pc = "done" /\ outcome # "InvalidTimeframeException") =>
        df = SelectSeq(trunc_meteor_df_24_hrs(curr_df),
                       LAMBDA row : /\ row.DD = now.day
                                    /\ row.hh \in (time_in[1] + 7)..(time_out[1] + 7))

\* C26: with one thread per station and distinct station ids, no snapshot
\* file is written by two threads at a time, and the file a BuoyData is
\* reading is not being written by a thread.
C26_NoConcurrentSnapshotAccess ==
    /\ \A f \in FileNames : Cardinality(files[f].writers) <= 1
    /\ ~(/\ reader.pc = "reading"
          /\ reader.file \in FileNames
          /\ files[reader.file].writers # {})

\* the month and day, in UTC, of the start of the session
StartInUtc == tz_convert(tz_localize(Timestamp(sesh_date, time_in)))

\* C27: for every date and times, the month and day parse_time_and_date
\* returns are the UTC month and day of the start, and its six values are
\* those of the variant of misc/scratch.py.
C27_MonthAndDayAreUtc ==
    /\ (pc = "parsed" /\ cmd.err = "none") =>
          /\ cmd.month = Fmt02(StartInUtc.month)
          /\ cmd.day = Fmt02(StartInUtc.day)
    /\ (pc = "parsed" /\ unit_op = "scratch parse") => cmd = unit_out

\* both applied to a start that is in the next month in UTC
C27_Witness ==
    /\ pc = "parsed" /\ unit_op = "scratch parse"
    /\ cmd.err = "none"
    /\ cmd.month # Fmt02(sesh_date[1])
    /\ cmd = unit_out

\* C28: once connect_to_db has succeeded, the cursor and the connection
\* are closed when the handler has returned, whichever way it returned.
C28_ClosedOnEveryReturn ==
    (sub.pc = "done" /\ sub.conn # "none") =>
        (sub.cursor = "closed" /\ sub.conn = "closed")

\* C29: for every CustFlaskException, with or without status_code and
\* payload, to_dict returns a mapping with the exception's message under
\* 'message', and the response is handle_bad_file's, with the exception's
\* status code.
C29_EveryExceptionIsAnswered ==
    /\ error.pc \in {"jsonified", "responded"} =>
          /\ error.rv.err = "none"
          /\ "message" \in DOMAIN error.rv.rv
          /\ error.rv.rv["message"] = error.exc["message"]
    /\ error.pc = "responded" =>
          /\ error.response.by = "handle_bad_file"
          /\ "status_code" \in DOMAIN error.exc =>
                error.response.status = error.exc["status_code"]

\* C30: a spectral dump is under way only when the meteorological dump of
\* the same cycle has ended; a thread whose download failed comes round
\* to the top of its loop again; and every station of the list is fetched
\* again and again, forever.
C30_PollersRepeatForever ==
    /\ [](\A st \in Stations :
            poller[st].pc = "spectral" => "meteor" \in poller[st].dumped)
    /\ \A st \in Stations : poller[st].failed ~> (poller[st].pc = "top")
    /\ \A st \in Stations : []<>(poller[st].pc = "meteor")

\* a thread that had a failed download is fetching again, in a later cycle
C30_Witness ==
    \E st \in Stations :
        /\ poller[st].pc = "meteor" /\ poller[st].failed
        /\ files[SpectralFile(st)].content = "empty"

====
